---- MODULE Spec2Model ----
(***************************************************************************)
(* Live log relay and remote command bridge of minecraft-control.          *)
(*                                                                         *)
(* The reader thread (read_journal) publishes journal lines on a tokio     *)
(* broadcast channel of capacity 16; every /ws connection subscribes in    *)
(* ws_handler and runs handle_socket, which races the channel receive      *)
(* against the inbound websocket stream.  /command and /log are handled    *)
(* by command_writer and log_handler.                                      *)
(***************************************************************************)
EXTENDS Integers, Sequences, FiniteSets, TLC

\* ------------------------------------------------------------------ bounds

\* Journal entries appended in the scenarios in which clients come and go.
WideEntries == 2
\* Journal entries appended in the scenario in which one session only listens
\* (more than Capacity, so that the session can fall behind and lag).
DeepEntries == 17
\* Journal entries of another unit, or lacking a field, that may be appended
\* in the scenarios that exercise the filter.
MaxForeign == 1
\* Length of a /command body.
MaxLen == 2
\* Journal entries that may exist before the reader seeks to the tail.
MaxOld == 2
\* Journal entries that may wait unread behind the reader's cursor.
MaxPending == 1

\* ------------------------------------------------------- program constants

\* broadcast::channel(16)
Capacity == 16

\* The default systemd unit of init().
TargetUnit == "minecraft-server.service"
OtherUnit == "sshd.service"
\* A field a journal entry does not carry (Entry::get returns None).
Absent == "<absent>"

\* At most two /ws connections (see Scenarios).
Sessions == 1..2

\* The shapes of run explored: how many /ws connections are made, how many
\* journal entries are appended, how many of them are foreign (another unit,
\* or a missing field), how many entries the journal may hold before the
\* reader seeks to its tail, the systemd_unit the reader is configured with,
\* and whether the clients send frames and end their streams.  Two sessions
\* share the bus in the first; one session meets the filter in the second,
\* under either configuration; one session falls behind in the third.
Scenarios ==
    { [sessions |-> 2, entries |-> WideEntries, foreign |-> 0,
       old |-> 1, unit |-> TargetUnit, frames |-> FALSE, closes |-> TRUE] }
    \cup { [sessions |-> 1, entries |-> WideEntries, foreign |-> MaxForeign,
            old |-> MaxOld, unit |-> u, frames |-> TRUE, closes |-> TRUE] :
                u \in {TargetUnit, ""} }
    \cup { [sessions |-> 1, entries |-> DeepEntries, foreign |-> 0,
            old |-> 1, unit |-> TargetUnit, frames |-> FALSE, closes |-> FALSE] }

VARIABLES
    scenario,   \* the shape of this run (constant along a behaviour)
    server,     \* main: "starting", "listening" or "exited"
    journal,    \* the systemd journal: its entries, oldest first
    reader,     \* read_journal: its position, journal cursor and history
    chan,       \* the broadcast channel shared by tx, tx_real and every rx
    sent,       \* history: every line handed to tx.send, in order
    sess,       \* per /ws connection: handle_socket's locals and history
    req,        \* per /command or /log request: the handler's position and answer
    pipe        \* the bytes written to the control input path, in order

vars == <<scenario, server, journal, reader, chan, sent, sess, req, pipe>>
busvars == <<scenario, journal, reader, chan, sent, sess>>

\* ------------------------------------------------------ broadcast channel

\* A line: the text the reader sends, with its number in the publish history.
NoLine == [seq |-> 0, text |-> ""]

\* broadcast::channel(16): slot i starts with pos = i - capacity, so that every
\* slot reads as "not yet written" to a receiver at position i.
NewChannel ==
    [ buf    |-> [i \in 0..(Capacity - 1) |-> [pos |-> i - Capacity, val |-> NoLine]],
      pos    |-> 0,
      rx_cnt |-> 0,
      tx_cnt |-> 0,
      closed |-> FALSE ]

\* Sender::send: with no receiver the value is returned in an Err and nothing
\* is stored; otherwise it overwrites the slot at tail position and advances.
ChanSend(ch, line) ==
    IF ch.rx_cnt = 0
    THEN ch
    ELSE [ch EXCEPT !.buf[ch.pos % Capacity] = [pos |-> ch.pos, val |-> line],
                    !.pos = ch.pos + 1]

\* (mutant) a subscription that starts at the oldest retained line.
SubscribeOldest(ch) == IF ch.pos > Capacity THEN ch.pos - Capacity ELSE 0

\* Sender::subscribe: the new receiver starts at the tail.
SubscribeNext(ch) == ch.pos

ChanSubscribe(ch) == [ch EXCEPT !.rx_cnt = @ + 1]

\* (mutant) a drop that takes every receiver off the channel.
ChanDropAllReceivers(ch) == [ch EXCEPT !.rx_cnt = 0]

\* Drop of a Receiver.
ChanDropReceiver(ch) == [ch EXCEPT !.rx_cnt = @ - 1]

\* (mutant) the Sender moved into the reader instead of a clone of it.
ChanMoveSender(ch) == [ch EXCEPT !.tx_cnt = 1]

\* Sender::clone.
ChanCloneSender(ch) == [ch EXCEPT !.tx_cnt = @ + 1]

\* Drop of a Sender: the last one closes the channel.
ChanDropSender(ch) ==
    [ch EXCEPT !.tx_cnt = @ - 1, !.closed = (ch.tx_cnt = 1)]

\* (mutant) a receive that returns the slot's value without advancing.
ChanRecvNoAdvance(ch, nxt) ==
    LET slot == ch.buf[nxt % Capacity]
        oldest == ch.pos - Capacity
    IN  IF slot.pos = nxt
        THEN [kind |-> "Ok", next |-> nxt, line |-> slot.val, missed |-> 0]
        ELSE IF slot.pos + Capacity = nxt
        THEN [kind |-> IF ch.closed THEN "Closed" ELSE "Empty",
              next |-> nxt, line |-> NoLine, missed |-> 0]
        ELSE [kind |-> "Lagged", next |-> oldest, line |-> NoLine,
              missed |-> oldest - nxt]

\* (mutant) a receive that skips the overwritten lines without saying so.
ChanRecvSilentSkip(ch, nxt) ==
    LET slot == ch.buf[nxt % Capacity]
        oldest == ch.pos - Capacity
    IN  IF slot.pos = nxt
        THEN [kind |-> "Ok", next |-> nxt + 1, line |-> slot.val, missed |-> 0]
        ELSE IF slot.pos + Capacity = nxt
        THEN [kind |-> IF ch.closed THEN "Closed" ELSE "Empty",
              next |-> nxt, line |-> NoLine, missed |-> 0]
        ELSE [kind |-> "Ok", next |-> oldest + 1,
              line |-> ch.buf[oldest % Capacity].val, missed |-> 0]

\* Receiver::recv polled once at position nxt: the slot's value, Lagged when
\* the slot was overwritten (the receiver jumps to the oldest retained line),
\* Closed when the channel is empty and has no sender, Empty (pending) otherwise.
ChanRecv(ch, nxt) ==
    LET slot == ch.buf[nxt % Capacity]
        oldest == ch.pos - Capacity
    IN  IF slot.pos = nxt
        THEN [kind |-> "Ok", next |-> nxt + 1, line |-> slot.val, missed |-> 0]
        ELSE IF slot.pos + Capacity = nxt
        THEN [kind |-> IF ch.closed THEN "Closed" ELSE "Empty",
              next |-> nxt, line |-> NoLine, missed |-> 0]
        ELSE IF oldest = nxt
        THEN [kind |-> "Ok", next |-> oldest + 1,
              line |-> ch.buf[oldest % Capacity].val, missed |-> 0]
        ELSE [kind |-> "Lagged", next |-> oldest, line |-> NoLine,
              missed |-> oldest - nxt]

\* --------------------------------------------------------------- requests

\* Two requests, so that any two handlers can run concurrently.
Requests == 1..2

\* The characters of a request body: a letter and the newline.
Chars == {"a", "\n"}

\* The bodies a client may post to /command.
Bodies == UNION { [1..n -> Chars] : n \in 0..MaxLen }

NewRequest ==
    [ pc      |-> "idle",    \* idle, open, write, writing, flush, logopen, done,
                             \* panicked
      route   |-> "none",    \* "/command" or "/log"
      body    |-> << >>,     \* the request body
      command |-> << >>,     \* command()'s local `command`
      status  |-> 0,         \* the response status, 0 while there is none
      ctype   |-> "",        \* the response's Content-Type
      payload |-> "",        \* the response body: "", or "stream" for the file
      wrote   |-> << >>,     \* history: bytes this request wrote to the pipe
      calls   |-> << >>,     \* history: the write calls command() made
      failed  |-> FALSE ]    \* history: the open, write or flush failed

\* ---------------------------------------------------------------- journal

StartupLine == "starting up"

\* The MESSAGE field of the k-th entry of the journal.
EntryMessage(k) == ToString(k)

\* The entries journald may append: of the target unit, of another unit or
\* with no unit field, each with its message; or of the target unit with no
\* MESSAGE field.
NewEntries(k) ==
    { [unit |-> u, message |-> EntryMessage(k)] : u \in {TargetUnit, OtherUnit, Absent} }
        \cup { [unit |-> TargetUnit, message |-> Absent] }

\* An entry of the target unit with its message is ordinary; the others are
\* foreign.
IsForeign(e) == e.unit # TargetUnit \/ e.message = Absent

ForeignCount(j) == Cardinality({k \in 1..Len(j) : IsForeign(j[k])})

\* ----------------------------------------------------------- initial state

NewSession ==
    [ pc      |-> "idle",    \* idle, upgrading, select, sending, done
      rx      |-> FALSE,     \* this connection holds a live Receiver
      next    |-> 0,         \* the Receiver's next position
      msg     |-> NoLine,    \* the line being sent to the client
      fwd     |-> << >>,     \* history: lines forwarded to the client
      start   |-> 0,         \* history: Len(sent) when it subscribed
      inbound |-> "open",    \* the client's stream: open, ended, errored
      ev      |-> "none",    \* history: the transport event that ended it
      raced   |-> 0,         \* history: the line that was ready when an
                             \* inbound frame won the select
      missed  |-> 0,         \* history: lines the Lagged results skipped
      lags    |-> 0,         \* history: Lagged results received
      lagFwd  |-> 0,         \* history: Len(fwd) at the last Lagged result
      closedSeen |-> FALSE,  \* history: a receive reported Closed
      overrun |-> FALSE ]    \* history: its backlog once exceeded Capacity

\* After init(): the channel exists with the Sender kept in MinecraftControl
\* and its clone moved into the spawned reader; the first Receiver is dropped.
Init ==
    /\ scenario \in Scenarios
    /\ server = "starting"
    /\ journal = <<[unit |-> TargetUnit, message |-> EntryMessage(1)]>>
    /\ reader = [pc     |-> "spawned",  \* spawned, opening, reading, sleeping,
                                       \* exited, panicked
                 cursor |-> 0,          \* the journal entry the cursor is on
                 tail   |-> 0,          \* history: the entries present at the open
                 err    |-> FALSE,      \* history: next_entry returned an Err
                 pub    |-> << >>]      \* history: the entries published, in order
    /\ chan = ChanCloneSender(ChanCloneSender(NewChannel))
    /\ sent = << >>
    /\ sess = [s \in Sessions |-> NewSession]
    /\ req = [r \in Requests |-> NewRequest]
    /\ pipe = << >>

\* ------------------------------------------------------------------- main

\* axum::serve / axum_server::bind_rustls: the routes are live.
Listen ==
    /\ server = "starting"
    /\ server' = "listening"
    /\ UNCHANGED <<scenario, journal, reader, chan, sent, sess, req, pipe>>

\* TcpListener::bind(..).await.unwrap() (or the TLS bind) fails: main panics
\* and the unwinding drops the router, the AppState in it and its Sender.
BindFail ==
    /\ server = "starting"
    /\ server' = "exited"
    /\ chan' = ChanDropSender(chan)
    /\ UNCHANGED <<scenario, journal, reader, sent, sess, req, pipe>>

\* ----------------------------------------------------------- read_journal

\* entry.get(field), with None read as the empty string.
FieldOrEmpty(value) == IF value = Absent THEN "" ELSE value

\* (mutant) a reader that publishes the entries of every unit.
UnitAlwaysMatches(unit, systemd_unit) == TRUE

\* if unit == &systemd_unit
UnitMatches(unit, systemd_unit) == FieldOrEmpty(unit) = systemd_unit

\* History: a session whose unread backlog exceeds the capacity has overrun.
MarkOverrun(ss, ch) ==
    [s \in Sessions |->
        IF ss[s].rx /\ ch.pos - ss[s].next > Capacity
        THEN [ss[s] EXCEPT !.overrun = TRUE]
        ELSE ss[s]]

\* What tx.send returns: Err when no receiver is subscribed.
ChanSendResult(ch) == IF ch.rx_cnt = 0 THEN "Err" ELSE "Ok"

\* (mutant) a reader that unwraps the result of tx.send.
PublishErrPanics(result) == IF result = "Err" THEN "panic" ELSE "continue"

\* let _ = tx.send(..), and match tx.send(..) { Ok(_s) => {}, Err(e) =>
\* println!(..) }: the reader goes on whatever send returned.
OnPublishResult(result) == "continue"

\* tx.send(text), its result ignored (or only printed) by the reader.
\* Sender::send is synchronous: it waits for no receiver.
Publish(text) ==
    /\ sent' = Append(sent, text)
    /\ chan' = IF OnPublishResult(ChanSendResult(chan)) = "continue"
               THEN ChanSend(chan, [seq |-> Len(sent) + 1, text |-> text])
               ELSE ChanDropSender(chan)
    /\ sess' = MarkOverrun(sess, chan')

\* The reader's position after a publish.
AfterPublish(pc) ==
    IF OnPublishResult(ChanSendResult(chan)) = "continue" THEN pc ELSE "panicked"

\* journald appends an entry.  Before the reader has sought to the tail the
\* journal holds at most scenario.old entries; afterwards at most MaxPending
\* wait unread.
JournalAppend ==
    /\ Len(journal) - 1 < scenario.entries
    /\ IF reader.pc \in {"spawned", "opening"}
       THEN Len(journal) < scenario.old
       ELSE Len(journal) - reader.cursor < MaxPending
    /\ \E e \in NewEntries(Len(journal) + 1) :
        /\ IsForeign(e) => ForeignCount(journal) < scenario.foreign
        /\ journal' = Append(journal, e)
    /\ UNCHANGED <<scenario, server, reader, chan, sent, sess, req, pipe>>

\* println!("opening journal"); tx.send("starting up")
ReaderStartup ==
    /\ reader.pc = "spawned"
    /\ Publish(StartupLine)
    /\ reader' = [reader EXCEPT !.pc = AfterPublish("opening")]
    /\ UNCHANGED <<scenario, journal, server, req, pipe>>

\* (mutant) a reader that starts at the head of the journal.
SeekHead(j) == 0

\* j.seek_tail(); j.previous(): the cursor is on the last entry, so that
\* next_entry returns only entries appended later.
SeekTail(j) == Len(j)

\* journal::OpenOptions::default().open().unwrap(), seek_tail, previous.  A
\* failed open panics the blocking task, whose JoinHandle init() discarded:
\* the task ends and its Sender is dropped.
ReaderOpen ==
    /\ reader.pc = "opening"
    /\ \E ok \in BOOLEAN :
        /\ reader' = IF ok
                     THEN [reader EXCEPT !.pc = "reading",
                                         !.cursor = SeekTail(journal),
                                         !.tail = Len(journal)]
                     ELSE [reader EXCEPT !.pc = "panicked"]
        /\ chan' = IF ok THEN chan ELSE ChanDropSender(chan)
    /\ UNCHANGED <<scenario, journal, server, sent, sess, req, pipe>>

\* j.next_entry() with the cursor on entry c: Ok(Some(entry)) with the entry
\* after it when there is one, Ok(None) when there is none, Err when the read
\* fails.
NextEntry(j, c, fails) ==
    IF fails THEN "err" ELSE IF c < Len(j) THEN "entry" ELSE "none"

\* (mutant) a loop that ends when the journal has no entry yet.
NoneEndsLoop(kind) ==
    CASE kind = "entry" -> "process" [] OTHER -> "exit"

\* while let Ok(e) = j.next_entry() { match e { Some(entry) => .., None =>
\* sleep } }: what the loop does with each result.
OnNextEntry(kind) ==
    CASE kind = "entry" -> "process" [] kind = "none" -> "sleep" [] OTHER -> "exit"

\* One iteration of `while let Ok(e) = j.next_entry()`.
ReaderNext ==
    /\ reader.pc = "reading"
    /\ \E fails \in BOOLEAN :
        LET kind == NextEntry(journal, reader.cursor, fails)
            todo == OnNextEntry(kind)
            k == reader.cursor + 1
        IN  CASE todo = "process" /\ UnitMatches(journal[k].unit, scenario.unit) ->
                    /\ Publish(FieldOrEmpty(journal[k].message))
                    /\ reader' = [reader EXCEPT !.cursor = k,
                                                !.pub = Append(@, k),
                                                !.pc = AfterPublish("reading")]
              [] todo = "process" /\ ~UnitMatches(journal[k].unit, scenario.unit) ->
                    /\ reader' = [reader EXCEPT !.cursor = k]
                    /\ UNCHANGED <<chan, sent, sess>>
              [] todo = "sleep" ->
                    /\ reader' = [reader EXCEPT !.pc = "sleeping"]
                    /\ UNCHANGED <<chan, sent, sess>>
              [] OTHER ->
                    /\ reader' = [reader EXCEPT !.pc = "exited", !.err = (kind = "err")]
                    /\ chan' = ChanDropSender(chan)
                    /\ UNCHANGED <<sent, sess>>
    /\ UNCHANGED <<scenario, journal, server, req, pipe>>

\* std::thread::sleep(Duration::from_secs(1)) returns.
ReaderWake ==
    /\ reader.pc = "sleeping"
    /\ reader' = [reader EXCEPT !.pc = "reading"]
    /\ UNCHANGED <<scenario, journal, server, chan, sent, sess, req, pipe>>

\* ------------------------------------------------ ws_handler, handle_socket

\* Leaving handle_socket (or dropping the on_upgrade closure) drops rx.
EndSession(rec) == [rec EXCEPT !.pc = "done", !.rx = FALSE, !.msg = NoLine]

\* ws_handler: let rx = state.control.subscribe(); ws.on_upgrade(..).
\* Connections are numbered in arrival order.
WsConnect(s) ==
    /\ server = "listening"
    /\ sess[s].pc = "idle"
    /\ s <= scenario.sessions
    /\ \A t \in Sessions : t < s => sess[t].pc # "idle"
    /\ sess' = [sess EXCEPT ![s] = [@ EXCEPT !.pc = "upgrading", !.rx = TRUE,
                                             !.next = SubscribeNext(chan),
                                             !.start = Len(sent)]]
    /\ chan' = ChanSubscribe(chan)
    /\ UNCHANGED <<scenario, journal, server, reader, sent, req, pipe>>

\* The upgrade completes and handle_socket starts, or it fails and the closure
\* holding rx is dropped.
Upgrade(s) ==
    /\ sess[s].pc = "upgrading"
    /\ \E ok \in BOOLEAN :
        IF ok
        THEN /\ sess' = [sess EXCEPT ![s].pc = "select"]
             /\ chan' = chan
        ELSE /\ sess' = [sess EXCEPT ![s] = EndSession([@ EXCEPT !.ev = "upgradefail"])]
             /\ chan' = ChanDropReceiver(chan)
    /\ UNCHANGED <<scenario, journal, server, reader, sent, req, pipe>>

\* (mutant) a loop that leaves on a Lagged result.
LaggedBreaks(kind) == IF kind = "Lagged" THEN "break" ELSE "continue"

\* msg = rx.recv() => match msg { .., Err(_e) => {} }: what the loop does on
\* an Err of the given kind.
OnRecvErr(kind) == "continue"

\* History: which Err the receive returned.
NoteRecvErr(rec, kind) ==
    IF kind = "Lagged"
    THEN [rec EXCEPT !.lags = @ + 1, !.lagFwd = Len(rec.fwd)]
    ELSE [rec EXCEPT !.closedSeen = TRUE]

\* The rx.recv() branch of select! completes.
BusBranch(s) ==
    /\ sess[s].pc = "select"
    /\ LET r == ChanRecv(chan, sess[s].next)
       IN  /\ r.kind # "Empty"
           /\ IF r.kind = "Ok"
              THEN /\ sess' = [sess EXCEPT ![s] = [@ EXCEPT !.pc = "sending",
                                                          !.next = r.next,
                                                          !.msg = r.line]]
                   /\ chan' = chan
              ELSE IF OnRecvErr(r.kind) = "continue"
              THEN /\ sess' = [sess EXCEPT ![s] = NoteRecvErr([@ EXCEPT !.next = r.next, !.missed = @ + r.missed], r.kind)]
                   /\ chan' = chan
              ELSE /\ sess' = [sess EXCEPT ![s] =
                                    EndSession(NoteRecvErr([@ EXCEPT !.next = r.next, !.missed = @ + r.missed], r.kind))]
                   /\ chan' = ChanDropReceiver(chan)
    /\ UNCHANGED <<scenario, journal, server, reader, sent, req, pipe>>

\* (mutant) a failed send that is logged without leaving the loop.
SendErrContinues(ok) == "continue"

\* if let Err(e) = sender.send(Message::Text(msg)).await { ..; break; }
OnSendResult(ok) == IF ok THEN "continue" ELSE "break"

\* sender.send(Message::Text(msg)).await completes.
SendDone(s) ==
    /\ sess[s].pc = "sending"
    /\ \E ok \in BOOLEAN :
        IF OnSendResult(ok) = "continue"
        THEN /\ sess' = [sess EXCEPT ![s] = [@ EXCEPT !.pc = "select",
                                                    !.fwd = IF ok THEN Append(@, sess[s].msg) ELSE @,
                                                    !.ev = IF ok THEN @ ELSE "writefail",
                                                    !.msg = NoLine]]
             /\ chan' = chan
        ELSE /\ sess' = [sess EXCEPT ![s] = EndSession([@ EXCEPT
                                                    !.fwd = IF ok THEN Append(@, sess[s].msg) ELSE @,
                                                    !.ev = IF ok THEN @ ELSE "writefail"])]
             /\ chan' = ChanDropReceiver(chan)
    /\ UNCHANGED <<scenario, journal, server, reader, sent, req, pipe>>

\* What receiver.next() can yield: Some(Ok(_)), Some(Err(e)) or None.
InboundEvents == {"frame", "error", "end"}

\* (mutant) a loop that goes on after the inbound stream has ended.
InboundEndContinues(ev) == IF ev = "error" THEN "break" ELSE "continue"

\* (mutant) an inbound error that does not leave the loop.
InboundErrContinues(ev) == IF ev = "end" THEN "break" ELSE "continue"

\* result = receiver.next() => match result { .. }
OnInbound(ev) == IF ev = "frame" THEN "continue" ELSE "break"

\* The client closes its side of the connection, or the connection breaks:
\* from now on receiver.next() yields None, or Some(Err(e)).
ClientEnds(s) ==
    /\ scenario.closes
    /\ sess[s].pc \in {"upgrading", "select", "sending"}
    /\ sess[s].inbound = "open"
    /\ \E how \in {"ended", "errored"} :
        sess' = [sess EXCEPT ![s].inbound = how]
    /\ UNCHANGED <<scenario, journal, server, reader, chan, sent, req, pipe>>

\* What receiver.next() yields next on a stream in the given state.
StreamNext(inbound) ==
    CASE inbound = "open" -> "frame" [] inbound = "ended" -> "end" [] OTHER -> "error"

\* (mutant) a receive that loses the line it was about to return when the
\* select drops it.
AbandonedRecvConsumes(ch, nxt) == ChanRecv(ch, nxt).next

\* The rx.recv() future dropped by select! when the other branch completes:
\* the Receiver's position is as it was.
AbandonedRecv(ch, nxt) == nxt

\* History: the line the abandoned receive had ready, the first time.
NoteRace(rec, ch) ==
    IF rec.raced = 0 /\ ChanRecv(ch, rec.next).kind = "Ok"
    THEN [rec EXCEPT !.raced = ChanRecv(ch, rec.next).line.seq]
    ELSE rec

\* The receiver.next() branch of select! completes and the rx.recv() of this
\* iteration is abandoned.
Inbound(s) ==
    /\ sess[s].pc = "select"
    /\ sess[s].inbound = "open" => scenario.frames
    /\ LET ev == StreamNext(sess[s].inbound)
       IN  IF OnInbound(ev) = "continue"
           THEN /\ sess' = [sess EXCEPT ![s] =
                                [NoteRace(@, chan) EXCEPT
                                    !.next = AbandonedRecv(chan, sess[s].next),
                                    !.ev = IF ev = "frame" THEN @ ELSE ev]]
                /\ chan' = chan
           ELSE /\ sess' = [sess EXCEPT ![s] = EndSession([@ EXCEPT !.ev = ev])]
                /\ chan' = ChanDropReceiver(chan)
    /\ UNCHANGED <<scenario, journal, server, reader, sent, req, pipe>>

\* ------------------------------------------- command_writer, command()

\* Result::unwrap: the value, or a panic of the task running the handler.
Unwrap(ok) == IF ok THEN "value" ELSE "panic"

\* command.ends_with("\n")
EndsWith(str, ch) == Len(str) > 0 /\ str[Len(str)] = ch

\* (mutant) a normalisation that appends a newline to every command.
NormalizeAlways(command) == command \o <<"\n">>

\* if !command.ends_with("\n") { command = format!("{}\n", command); }
Normalize(command) ==
    IF ~EndsWith(command, "\n") THEN command \o <<"\n">> ELSE command

\* match state.control.command(body).await { Ok(_) => OK, Err(_) => 500 }
CommandWriterStatus(result) == IF result = "Ok" THEN 200 ELSE 500

\* A handler that panics answers nothing: its connection task is torn down,
\* its locals are dropped, and the server goes on.
Panicked(rec) ==
    [rec EXCEPT !.pc = "panicked", !.failed = TRUE, !.body = << >>, !.command = << >>]

\* POST /command arrives; requests are numbered in arrival order.
CommandRequest(r) ==
    /\ server = "listening"
    /\ req[r].pc = "idle"
    /\ \A q \in Requests : q < r => req[q].pc # "idle"
    /\ \E body \in Bodies :
        req' = [req EXCEPT ![r] = [@ EXCEPT !.pc = "open", !.route = "/command",
                                           !.body = body, !.command = body]]
    /\ UNCHANGED <<server, busvars, pipe>>

\* OpenOptions::new().read(false).write(true).open(filename).await.unwrap()
CommandOpen(r) ==
    /\ req[r].pc = "open"
    /\ \E ok \in BOOLEAN :
        req' = [req EXCEPT ![r] = IF Unwrap(ok) = "value"
                                  THEN [@ EXCEPT !.pc = "write"]
                                  ELSE Panicked(@)]
    /\ UNCHANGED <<server, busvars, pipe>>

\* The newline is appended and file.write_all(bytes) is called, once, with the
\* whole line.
CommandWrite(r) ==
    /\ req[r].pc = "write"
    /\ req' = [req EXCEPT ![r] = [@ EXCEPT !.pc = "writing",
                                          !.command = Normalize(req[r].command),
                                          !.calls = Append(@, "write_all")]]
    /\ UNCHANGED <<server, busvars, pipe>>

\* (mutant) a write loop that starts again from the first byte.
ChunkRestart(bytes, off, n) == SubSeq(bytes, 1, n)

\* The n bytes a write takes from the buffer, off bytes of which are written.
Chunk(bytes, off, n) == SubSeq(bytes, off + 1, off + n)

\* write_all's loop, one write of the file per step: the write takes some of
\* the bytes left, or fails (and .unwrap() panics).  The file is this
\* request's own handle on the shared path, opened without any lock, so
\* between two writes of one request another request may write.
WriteChunk(r) ==
    /\ req[r].pc = "writing"
    /\ LET bytes == req[r].command
           off == Len(req[r].wrote)
       IN  \E n \in 0..(Len(bytes) - off) :
            IF Unwrap(n > 0) = "value"
            THEN /\ pipe' = pipe \o Chunk(bytes, off, n)
                 /\ req' = [req EXCEPT ![r] =
                                [@ EXCEPT !.wrote = @ \o Chunk(bytes, off, n),
                                          !.pc = IF off + n = Len(bytes)
                                                 THEN "flush" ELSE "writing"]]
            ELSE /\ pipe' = pipe
                 /\ req' = [req EXCEPT ![r] = Panicked(@)]
    /\ UNCHANGED <<server, busvars>>

\* file.flush().await.unwrap(); Ok(true); command_writer answers.
CommandFlush(r) ==
    /\ req[r].pc = "flush"
    /\ \E ok \in BOOLEAN :
        req' = [req EXCEPT ![r] =
                    IF Unwrap(ok) = "value"
                    THEN [@ EXCEPT !.pc = "done", !.calls = Append(@, "flush"),
                                   !.status = CommandWriterStatus("Ok")]
                    ELSE Panicked([@ EXCEPT !.calls = Append(@, "flush")])]
    /\ UNCHANGED <<server, busvars, pipe>>

\* ------------------------------------------------------ log_handler, log()

\* The response axum builds from log_handler's Result<(HeaderMap, Body), &str>:
\* Ok is the headers and the stream; Err(text) is the text itself as a response,
\* which has a success status.
IntoResponse(result) ==
    IF result = "Ok"
    THEN [status |-> 200, ctype |-> "text/plain; chatset=utf-8", payload |-> "stream"]
    ELSE [status |-> 200, ctype |-> "text/plain; charset=utf-8", payload |-> ""]

\* GET /log arrives; requests are numbered in arrival order.
LogRequest(r) ==
    /\ server = "listening"
    /\ req[r].pc = "idle"
    /\ \A q \in Requests : q < r => req[q].pc # "idle"
    /\ req' = [req EXCEPT ![r] = [@ EXCEPT !.pc = "logopen", !.route = "/log"]]
    /\ UNCHANGED <<server, busvars, pipe>>

\* tokio::fs::File::open(filename).await?, then Ok((headers, body)) or Err("").
LogOpen(r) ==
    /\ req[r].pc = "logopen"
    /\ \E ok \in BOOLEAN :
        LET resp == IntoResponse(IF ok THEN "Ok" ELSE "Err")
        IN  req' = [req EXCEPT ![r] = [@ EXCEPT !.pc = "done", !.failed = ~ok,
                                               !.status = resp.status,
                                               !.ctype = resp.ctype,
                                               !.payload = resp.payload]]
    /\ UNCHANGED <<server, busvars, pipe>>

\* -------------------------------------------------------- specification

Next ==
    \/ Listen
    \/ BindFail
    \/ ReaderStartup
    \/ ReaderOpen
    \/ ReaderNext
    \/ ReaderWake
    \/ JournalAppend
    \/ \E s \in Sessions : ClientEnds(s)
    \/ \E s \in Sessions : WsConnect(s)
    \/ \E s \in Sessions : Upgrade(s)
    \/ \E s \in Sessions : BusBranch(s)
    \/ \E s \in Sessions : SendDone(s)
    \/ \E s \in Sessions : Inbound(s)

Spec == Init /\ [][Next]_vars

\* The request handlers, which share nothing with the channel.
NextHttp ==
    \/ Listen
    \/ BindFail
    \/ \E r \in Requests : CommandRequest(r)
    \/ \E r \in Requests : CommandOpen(r)
    \/ \E r \in Requests : CommandWrite(r)
    \/ \E r \in Requests : WriteChunk(r)
    \/ \E r \in Requests : CommandFlush(r)
    \/ \E r \in Requests : LogRequest(r)
    \/ \E r \in Requests : LogOpen(r)

SpecHttp == Init /\ [][NextHttp]_vars

\* handle_socket driven on a channel that can lose its last Sender.  In the
\* program the Sender in MinecraftControl lives as long as the router does, so
\* Spec never closes the channel under a session; here the router's state may
\* be dropped while sessions run, which is the case the Closed arm is for.
ControlDropped ==
    /\ server = "listening"
    /\ server' = "stopped"
    /\ chan' = ChanDropSender(chan)
    /\ UNCHANGED <<scenario, journal, reader, sent, sess, req, pipe>>

SpecClosed == Init /\ [][Next \/ ControlDropped]_vars

\* The runs in which the client only listens: it sends no frame and keeps its
\* stream open, so that the inbound branch of its session never completes.
InitQuiet == Init /\ ~scenario.closes /\ ~scenario.frames

NextQuiet ==
    \/ Listen
    \/ BindFail
    \/ ReaderStartup
    \/ ReaderOpen
    \/ ReaderNext
    \/ ReaderWake
    \/ JournalAppend
    \/ \E s \in Sessions : WsConnect(s)
    \/ \E s \in Sessions : Upgrade(s)
    \/ \E s \in Sessions : BusBranch(s)
    \/ \E s \in Sessions : SendDone(s)

\* The scheduler runs every ready task, and select! picks at random among its
\* ready branches: a step of a session that stays possible is eventually taken.
FairSpec ==
    /\ InitQuiet /\ [][NextQuiet]_vars
    /\ \A s \in Sessions :
        /\ WF_vars(Upgrade(s))
        /\ WF_vars(BusBranch(s))
        /\ WF_vars(SendDone(s))

\* The reader and the journal alone: no client connects.
NextReader ==
    \/ ReaderStartup
    \/ ReaderOpen
    \/ ReaderNext
    \/ ReaderWake
    \/ JournalAppend

\* read_journal runs on a thread of its own (spawn_blocking): each of its steps
\* is eventually taken, and the one-second sleep returns.
FairReader ==
    /\ Init /\ [][NextReader]_vars
    /\ WF_vars(ReaderStartup) /\ WF_vars(ReaderOpen)
    /\ WF_vars(ReaderNext) /\ WF_vars(ReaderWake)

\* The runs in which the one client sends frames and ends its stream, the
\* reader looking for the default unit.
InitClosing == Init /\ scenario.frames /\ scenario.unit = TargetUnit

\* As FairSpec, with select!'s random choice among ready branches stated for
\* the inbound branch: it is ready in every iteration once the stream has
\* ended, though not while a send is awaited, so it is chosen eventually.
FairSelect ==
    /\ InitClosing /\ [][Next]_vars
    /\ \A s \in Sessions :
        /\ WF_vars(Upgrade(s))
        /\ WF_vars(BusBranch(s))
        /\ WF_vars(SendDone(s))
        /\ SF_vars(Inbound(s))

\* ------------------------------------------------------------- properties

\* The lines a session has taken from its receiver, in order: those forwarded
\* and the one being sent.
Taken(s) ==
    IF sess[s].pc = "sending" THEN Append(sess[s].fwd, sess[s].msg) ELSE sess[s].fwd

Texts(lines) == [i \in 1..Len(lines) |-> lines[i].text]

\* C1: no line published before a subscription was created is ever returned
\* by its receive or forwarded to its client.
NoReplay ==
    \A s \in Sessions :
        \A i \in 1..Len(Taken(s)) : Taken(s)[i].seq > sess[s].start

\* A session that subscribed while earlier lines were still retained in the
\* ring has forwarded a line.
NoReplayWitness ==
    \E s \in Sessions :
        /\ Len(sess[s].fwd) > 0
        /\ \E i \in 0..(Capacity - 1) : chan.buf[i].val.seq \in 1..sess[s].start

\* C2: a session whose backlog never exceeded the capacity takes exactly the
\* lines published after it subscribed, in publish order and without a gap;
\* once it has caught up it has forwarded all of them.
ExactDelivery ==
    \A s \in Sessions :
        ~sess[s].overrun =>
            /\ \A i \in 1..Len(Taken(s)) :
                    /\ Taken(s)[i].seq = sess[s].start + i
                    /\ Taken(s)[i].seq <= Len(sent)
                    /\ Taken(s)[i].text = sent[sess[s].start + i]
            /\ (sess[s].pc = "select" /\ ChanRecv(chan, sess[s].next).kind = "Empty")
                    => Texts(sess[s].fwd) = SubSeq(sent, sess[s].start + 1, Len(sent))

\* A session that never overran has forwarded several lines and caught up.
ExactDeliveryWitness ==
    \E s \in Sessions :
        /\ ~sess[s].overrun
        /\ sess[s].pc = "select"
        /\ Len(sess[s].fwd) >= 3
        /\ ChanRecv(chan, sess[s].next).kind = "Empty"

\* C3: the lines forwarded to a client are a subsequence of the publish
\* history: in publish order, none twice, each the text that was published;
\* a failed outbound send ends the session.
OrderedAtMostOnce ==
    \A s \in Sessions :
        /\ \A i \in 1..Len(Taken(s)) :
                /\ Taken(s)[i].seq \in 1..Len(sent)
                /\ Taken(s)[i].text = sent[Taken(s)[i].seq]
                /\ i > 1 => Taken(s)[i - 1].seq < Taken(s)[i].seq
        /\ sess[s].ev = "writefail" => sess[s].pc = "done" /\ ~sess[s].rx

\* A session that lagged has forwarded lines on both sides of the gap.
OrderedAtMostOnceWitness ==
    \E s \in Sessions :
        /\ sess[s].lags > 0
        /\ \E i \in 1..(Len(sess[s].fwd) - 1) :
                sess[s].fwd[i + 1].seq > sess[s].fwd[i].seq + 1

\* C4: a session whose backlog exceeded the capacity eventually receives
\* Lagged (unless its transport ends it first), is not ended by it, and then
\* goes on to forward newer lines.
LagIsNotFatal ==
    /\ [][\A s \in Sessions :
            sess'[s].lags > sess[s].lags => sess'[s].pc = "select" /\ sess'[s].rx]_vars
    /\ \A s \in Sessions :
            sess[s].overrun ~> (sess[s].lags > 0 \/ sess[s].pc = "done")
    /\ \A s \in Sessions :
            (sess[s].lags > 0) ~> (Len(sess[s].fwd) > sess[s].lagFwd \/ sess[s].pc = "done")

\* A session that lagged is still running and has forwarded a line newer than
\* the ones it missed.
LagIsNotFatalWitness ==
    \E s \in Sessions :
        /\ sess[s].overrun
        /\ sess[s].lags > 0
        /\ sess[s].pc = "select"
        /\ Len(sess[s].fwd) > sess[s].lagFwd
        /\ sess[s].fwd[sess[s].lagFwd + 1].seq > sess[s].start + sess[s].lagFwd + 1

\* C5: end-of-stream or an error on the inbound read, or a failed outbound
\* write, each ends the session and releases its subscription.
TransportEndsSession ==
    /\ \A s \in Sessions :
            sess[s].ev \in {"end", "error", "writefail"} =>
                sess[s].pc = "done" /\ ~sess[s].rx
    /\ chan.rx_cnt = Cardinality({s \in Sessions : sess[s].rx})

\* Two sessions ended by different triggers, and the channel has no receiver.
TransportEndsSessionWitness ==
    /\ \E s, u \in Sessions :
            /\ sess[s].ev = "writefail" /\ sess[s].pc = "done"
            /\ sess[u].ev \in {"end", "error"} /\ sess[u].pc = "done"
    /\ chan.rx_cnt = 0

\* C6: a session whose receive reported Closed has left its loop and released
\* its subscription.
ClosedEndsSession ==
    \A s \in Sessions :
        sess[s].closedSeen => sess[s].pc = "done" /\ ~sess[s].rx

\* C7: a command whose open, write or flush failed is answered with status
\* 500 by a handler that did not crash.
CommandFailureAnswers500 ==
    \A r \in Requests :
        (req[r].route = "/command" /\ req[r].failed) =>
            req[r].pc = "done" /\ req[r].status = 500

\* C8: the server never accepts requests after the reader failed to open the
\* journal.
ReaderFailureStopsServer ==
    reader.pc = "panicked" => server # "listening"

\* C9: a delivered command wrote its body, followed by one newline unless the
\* body already ended in one, by one write_all and then one flush; so a body
\* and the same body with its newline write the same bytes.
CommandWritesLine ==
    /\ \A r \in Requests :
            (req[r].route = "/command" /\ req[r].pc = "done") =>
                /\ req[r].wrote =
                        IF Len(req[r].body) > 0 /\ req[r].body[Len(req[r].body)] = "\n"
                        THEN req[r].body
                        ELSE Append(req[r].body, "\n")
                /\ req[r].calls = <<"write_all", "flush">>
                /\ req[r].status = 200
    /\ \A r, q \in Requests :
            ( /\ req[r].route = "/command" /\ req[r].pc = "done"
              /\ req[q].route = "/command" /\ req[q].pc = "done"
              /\ req[q].body = Append(req[r].body, "\n")
              /\ ~(Len(req[r].body) > 0 /\ req[r].body[Len(req[r].body)] = "\n") )
                => req[q].wrote = req[r].wrote

\* Two delivered commands, one the other's body with the newline added, and
\* one delivered command whose body ended in a newline.
CommandWritesLineWitness ==
    \E r, q \in Requests :
        /\ req[r].pc = "done" /\ req[r].route = "/command"
        /\ req[q].pc = "done" /\ req[q].route = "/command"
        /\ req[r].body = <<"a">>
        /\ req[q].body = <<"a", "\n">>
        /\ pipe = <<"a", "\n", "a", "\n">>

\* C10: a GET /log whose file could not be opened is answered with an error
\* status and no payload.
LogOpenFailureIsError ==
    \A r \in Requests :
        (req[r].route = "/log" /\ req[r].failed) =>
            req[r].status >= 400 /\ req[r].payload = ""

\* C11: the reader's loop ends only when next_entry returns an Err: with no
\* pending entry it sleeps and retries, so every matching entry appended after
\* the reader sought to the tail is eventually published (unless a read
\* fails).
ReaderKeepsPolling ==
    /\ [](reader.pc = "exited" => reader.err)
    /\ \A k \in 1..(DeepEntries + 1) :
        [](( /\ reader.pc \in {"reading", "sleeping"}
             /\ reader.tail < k /\ k <= Len(journal)
             /\ (IF journal[k].unit = Absent THEN "" ELSE journal[k].unit) = scenario.unit )
            => <>(reader.err \/ \E i \in 1..Len(reader.pub) : reader.pub[i] = k))

\* The reader sleeps, having published an entry before, while a matching
\* entry appended since waits in the journal.
ReaderKeepsPollingWitness ==
    /\ reader.pc = "sleeping"
    /\ Len(reader.pub) > 0
    /\ reader.cursor < Len(journal)
    /\ journal[Len(journal)].unit = scenario.unit

\* C12: a publish never waits and never stops the reader: whenever the reader
\* is at a publish, whatever the subscribers and their backlogs, the publish
\* can run; it adds one line to the history, leaves the reader at its next
\* statement and touches no session beyond its overrun mark; with no
\* subscriber the channel is left as it was.
PublishNeverStops ==
    /\ []( ( \/ reader.pc = "spawned"
             \/ /\ reader.pc = "reading"
                /\ reader.cursor < Len(journal)
                /\ journal[reader.cursor + 1].unit = scenario.unit )
           => ENABLED (Publish("line") /\ UNCHANGED <<scenario, journal, server, reader, req, pipe>>) )
    /\ [][ sent' # sent =>
            /\ Len(sent') = Len(sent) + 1
            /\ reader'.pc = IF reader.pc = "spawned" THEN "opening" ELSE "reading"
            /\ chan.rx_cnt = 0 => chan' = chan
            /\ chan.rx_cnt > 0 => chan'.pos = chan.pos + 1
            /\ \A s \in Sessions :
                /\ [sess'[s] EXCEPT !.overrun = FALSE] = [sess[s] EXCEPT !.overrun = FALSE]
                /\ sess[s].rx /\ chan.pos - sess[s].next >= Capacity => sess'[s].overrun
         ]_vars

\* The reader has published with no subscriber (lines the channel did not
\* keep) and over a session whose backlog was full, and is still reading.
PublishNeverStopsWitness ==
    /\ reader.pc = "reading"
    /\ chan.pos < Len(sent)
    /\ \E s \in Sessions : sess[s].rx /\ sess[s].overrun /\ chan.pos - sess[s].next > Capacity

\* C13: a subscriber has at most Capacity lines waiting for it, those the
\* channel still keeps; once more than Capacity were published past its
\* position, its next receive is Lagged, counts exactly the lines lost and
\* moves it to the oldest kept line, which is the line the receive after
\* returns; and every line published since it subscribed is either taken,
\* counted as missed or still ahead of it.
BoundedBacklog ==
    \A s \in Sessions :
        sess[s].rx =>
            LET backlog == chan.pos - sess[s].next
                kept == {i \in 0..(Capacity - 1) : chan.buf[i].pos >= sess[s].next}
                r == ChanRecv(chan, sess[s].next)
            IN  /\ Cardinality(kept) = IF backlog > Capacity THEN Capacity ELSE backlog
                /\ (backlog > Capacity) <=> (r.kind = "Lagged")
                /\ r.kind = "Lagged" =>
                        /\ r.missed = backlog - Capacity
                        /\ chan.pos - r.next = Capacity
                        /\ ChanRecv(chan, r.next).kind = "Ok"
                /\ r.kind = "Ok" =>
                        r.line.seq = r.next + (Len(sent) - chan.pos)
                /\ Len(Taken(s)) + sess[s].missed + backlog = Len(sent) - sess[s].start

\* A session was told of the lines it lost and is sending the oldest line the
\* channel kept: the one that follows the lost lines in the history.
BoundedBacklogWitness ==
    \E s \in Sessions :
        /\ sess[s].rx /\ sess[s].pc = "sending"
        /\ sess[s].lags = 1 /\ sess[s].missed > 0
        /\ Len(sess[s].fwd) = sess[s].lagFwd
        /\ sess[s].msg.seq = sess[s].start + Len(sess[s].fwd) + sess[s].missed + 1

\* C14: the step in which a session ends on a transport failure (a failed
\* send, an inbound error or the end of the inbound stream) changes no other
\* session, nothing any other receiver would be given next, and nothing of the
\* bus but the receiver count, which falls by one: publishes and
\* subscriptions go on as before.
FailureIsLocal ==
    [][ \A s \in Sessions :
            ( /\ sess[s].pc # "done" /\ sess'[s].pc = "done"
              /\ sess'[s].ev \in {"writefail", "error", "end"} )
            => /\ \A t \in Sessions \ {s} :
                    /\ sess'[t] = sess[t]
                    /\ ChanRecv(chan', sess[t].next) = ChanRecv(chan, sess[t].next)
               /\ chan' = [chan EXCEPT !.rx_cnt = @ - 1]
               /\ chan'.rx_cnt = Cardinality({t \in Sessions \ {s} : sess[t].rx})
               /\ SubscribeNext(chan') = SubscribeNext(chan)
               /\ sent' = sent /\ reader' = reader /\ journal' = journal
      ]_vars

\* One session ended on a failed send; the other is still in its loop and has
\* forwarded a line the first never delivered.
FailureIsLocalWitness ==
    \E s, t \in Sessions :
        /\ sess[s].pc = "done" /\ sess[s].ev = "writefail"
        /\ Len(sess[s].fwd) > 0
        /\ sess[t].pc = "select" /\ sess[t].rx
        /\ Len(sess[t].fwd) > Len(sess[s].fwd)
        /\ sess[t].fwd[Len(sess[t].fwd)].seq > sess[s].fwd[Len(sess[s].fwd)].seq

\* C15: of the entries the reader has read, those published are exactly the
\* ones whose unit field, read as "" when absent, equals the configured unit,
\* in journal order; each was published as its MESSAGE text ("" when the field
\* is absent), and nothing else follows the startup line in the history.
FilterExact ==
    /\ \A k \in 1..Len(journal) :
            (\E i \in 1..Len(reader.pub) : reader.pub[i] = k)
                <=> /\ reader.tail < k /\ k <= reader.cursor
                    /\ (IF journal[k].unit = Absent THEN "" ELSE journal[k].unit)
                            = scenario.unit
    /\ \A i, j \in 1..Len(reader.pub) : i < j => reader.pub[i] < reader.pub[j]
    /\ Len(sent) = Len(reader.pub) + (IF reader.pc = "spawned" THEN 0 ELSE 1)
    /\ \A i \in 1..Len(reader.pub) :
            sent[i + 1] = IF journal[reader.pub[i]].message = Absent
                          THEN ""
                          ELSE journal[reader.pub[i]].message

\* Configured with the empty unit, the reader has read an entry without a unit
\* field and an entry of the default unit, and published only the first.
FilterExactWitness ==
    /\ scenario.unit = ""
    /\ reader.cursor >= reader.tail + 2
    /\ Len(reader.pub) = 1
    /\ journal[reader.pub[1]].unit = Absent
    /\ \E k \in (reader.tail + 1)..reader.cursor : journal[k].unit = TargetUnit

\* C16: an iteration of the loop that the inbound branch wins with a frame
\* leaves the receiver where it was: the channel, the session's position and
\* the result its next receive gives are unchanged, so the line that was ready
\* is the next line the session takes once it has not taken it yet; and in
\* every iteration both branches are awaited again.
InboundKeepsLine ==
    /\ [](\A s \in Sessions :
            /\ (sess[s].raced # 0 /\ sess[s].pc # "done" /\ sess[s].lags = 0) =>
                    \/ \E i \in 1..Len(Taken(s)) : Taken(s)[i].seq = sess[s].raced
                    \/ /\ ChanRecv(chan, sess[s].next).kind = "Ok"
                       /\ ChanRecv(chan, sess[s].next).line.seq = sess[s].raced
            /\ sess[s].pc = "select" =>
                    /\ (ENABLED BusBranch(s)) <=> (ChanRecv(chan, sess[s].next).kind # "Empty")
                    /\ (sess[s].inbound # "open") => ENABLED Inbound(s))
    /\ [][ \A s \in Sessions :
            (Inbound(s) /\ sess'[s].pc = "select") =>
                /\ sess'[s].next = sess[s].next
                /\ sess'[s].fwd = sess[s].fwd
                /\ chan' = chan
                /\ ChanRecv(chan', sess'[s].next) = ChanRecv(chan, sess[s].next)
         ]_vars

\* An inbound frame won the select while a line was ready, and that line has
\* since been forwarded.
InboundKeepsLineWitness ==
    \E s \in Sessions :
        /\ sess[s].raced # 0
        /\ \E i \in 1..Len(sess[s].fwd) : sess[s].fwd[i].seq = sess[s].raced

\* p is an interleaving of a and b that keeps the order of each.
RECURSIVE IsMerge(_, _, _)
IsMerge(p, a, b) ==
    IF p = << >>
    THEN a = << >> /\ b = << >>
    ELSE \/ a # << >> /\ Head(a) = Head(p) /\ IsMerge(Tail(p), Tail(a), b)
         \/ b # << >> /\ Head(b) = Head(p) /\ IsMerge(Tail(p), a, Tail(b))

\* C17 as stated: the lines of two delivered commands stand whole in the
\* control input, one after the other.
CommandsNeverInterleave ==
    \A r, q \in Requests :
        ( /\ r # q
          /\ req[r].route = "/command" /\ req[r].pc = "done"
          /\ req[q].route = "/command" /\ req[q].pc = "done" )
            => \/ pipe = req[r].wrote \o req[q].wrote
               \/ pipe = req[q].wrote \o req[r].wrote

\* C17, amended: each command makes one write_all call with its whole
\* newline-terminated line; what it has written is at every moment a prefix of
\* that line, the whole line once it is delivered; and the control input holds
\* the bytes of the commands each in its own order, though not necessarily
\* side by side.
CommandBytesInOrder ==
    /\ \A r \in Requests :
        req[r].route = "/command" =>
            LET line == req[r].command
            IN  /\ req[r].pc \in {"open", "write"} => req[r].wrote = << >>
                /\ req[r].pc \in {"writing", "flush", "done"} =>
                        /\ Len(req[r].wrote) <= Len(line)
                        /\ req[r].wrote = SubSeq(line, 1, Len(req[r].wrote))
                /\ Cardinality({i \in 1..Len(req[r].calls) :
                                    req[r].calls[i] = "write_all"}) <= 1
                /\ req[r].pc \in {"flush", "done"} =>
                        /\ req[r].wrote = line
                        /\ line[Len(line)] = "\n"
                        /\ SubSeq(line, 1, Len(req[r].body)) = req[r].body
    /\ IsMerge(pipe, req[1].wrote, req[2].wrote)

\* Two commands were delivered and the bytes of one stand between the bytes of
\* the other.
CommandBytesInOrderWitness ==
    /\ \A r \in Requests : req[r].route = "/command" /\ req[r].pc = "done"
    /\ pipe # req[1].wrote \o req[2].wrote
    /\ pipe # req[2].wrote \o req[1].wrote

\* C18: the first line of the publish history is the one "starting up" line,
\* sent as the reader starts; every other line is the message of a journal
\* entry; the reader's cursor starts on the last entry present when it opened
\* the journal, and no entry present by then is ever published.
StartupLineFirst ==
    /\ reader.pc = "spawned" => sent = << >>
    /\ reader.pc # "spawned" => Len(sent) >= 1 /\ sent[1] = StartupLine
    /\ Cardinality({i \in 1..Len(sent) : sent[i] = StartupLine}) <= 1
    /\ Len(sent) <= 1 + Len(reader.pub)
    /\ reader.pc \in {"reading", "sleeping", "exited"} =>
            /\ 1 <= reader.tail
            /\ reader.tail <= reader.cursor /\ reader.cursor <= Len(journal)
    /\ \A i \in 1..Len(reader.pub) : reader.pub[i] > reader.tail
    /\ \A s \in Sessions : \A i \in 1..Len(Taken(s)) :
            Taken(s)[i].text = StartupLine => i = 1 /\ Taken(s)[i].seq = 1

\* The journal held two entries of the target unit when the reader opened it;
\* the reader has published an entry since, and a session that subscribed
\* before the reader started was sent "starting up" first.
StartupLineFirstWitness ==
    /\ reader.tail = 2 /\ Len(reader.pub) >= 1
    /\ journal[1].unit = scenario.unit /\ journal[2].unit = scenario.unit
    /\ \E s \in Sessions :
        /\ Len(sess[s].fwd) >= 2
        /\ sess[s].fwd[1].text = StartupLine

\* C19: while the server runs no receive reports Closed, the reader having
\* ended or not: the Sender kept in MinecraftControl keeps the channel open.
\* The step that ends the reader changes no session; after it nothing is
\* published, and a session that subscribes then is sent nothing.
NeverClosed ==
    /\ [](\A s \in Sessions :
            /\ ~sess[s].closedSeen
            /\ sess[s].rx =>
                    /\ ~chan.closed /\ chan.tx_cnt >= 1
                    /\ ChanRecv(chan, sess[s].next).kind # "Closed"
            /\ (reader.pc \in {"exited", "panicked"} /\ sess[s].start = Len(sent)) =>
                    Taken(s) = << >>)
    /\ [][ /\ (reader.pc \notin {"exited", "panicked"}
                    /\ reader'.pc \in {"exited", "panicked"}) =>
                /\ sess' = sess
                /\ server # "exited" =>
                        chan' = [chan EXCEPT !.tx_cnt = @ - 1] /\ ~chan'.closed
           /\ reader.pc \in {"exited", "panicked"} =>
                /\ reader' = reader /\ sent' = sent
                /\ chan'.pos = chan.pos /\ chan'.buf = chan.buf
                /\ server' # "exited" => chan'.closed = chan.closed
         ]_vars

\* The reader's loop has ended on a read error; a session that subscribed
\* before is still in its loop, and so is one that subscribed afterwards,
\* which has been sent nothing.
NeverClosedWitness ==
    /\ reader.pc = "exited" /\ reader.err
    /\ chan.tx_cnt = 1 /\ chan.rx_cnt = 2
    /\ \E s, t \in Sessions :
        /\ sess[s].pc = "select" /\ sess[s].start < Len(sent)
        /\ Len(sess[s].fwd) = Len(sent) - sess[s].start
        /\ sess[t].pc = "select" /\ sess[t].start = Len(sent)
        /\ sess[t].fwd = << >>

====
